---- MODULE Spec2Model ----
(***************************************************************************)
(* Tic-tac-toe search engine: check_winner, the heuristics h1 and h2,      *)
(* minimax, alphabeta and get_best_move (src/heuristics.py, src/minmax.py).*)
(* A board is a function 0..8 -> {" ", "X", "O"}; Python's None is the     *)
(* string "None"; a heuristic function value is its name, "h1" or "h2".    *)
(***************************************************************************)
EXTENDS Integers, Sequences, FiniteSets, TLC

\* ------------------------------------------------------------------ bounds
\* Positions handed to the calls have at most MaxEmpty empty cells (and the
\* example board of analysis.py, which has 7).
MaxEmpty == 4
\* Depth arguments handed to the search range over 0..MaxDepth.
MaxDepth == 4
\* Positions searched with every window have at most MaxEmptyWindowed empty
\* cells.
MaxEmptyWindowed == 3
\* In the window at most MaxPending engine moves are scheduled or about to
\* be scheduled at a time.
MaxPending == 2
\* "New Game" is pressed while fewer than MaxGames games have been counted.
MaxGames == 1

\* --------------------------------------------------------------- constants
\* float('inf') and -float('inf'): every heuristic value lies strictly
\* between them (|h1| <= 1, |h2| <= 100).
INF == 1000
NEG_INF == -1000

Cells == 0..8
Marks == {"X", "O"}
None == "None"

WINNING_LINES ==
  << <<0, 1, 2>>, <<3, 4, 5>>, <<6, 7, 8>>,
     <<0, 3, 6>>, <<1, 4, 7>>, <<2, 5, 8>>,
     <<0, 4, 8>>, <<2, 4, 6>> >>

EmptyBoard == [i \in Cells |-> " "]

Max(a, b) == IF a >= b THEN a ELSE b
\* Mutation of Min: the minimizing branch takes the larger value.
MinTakesLarger(a, b) == IF a >= b THEN a ELSE b
Min(a, b) == IF a <= b THEN a ELSE b

\* ------------------------------------------------------------ heuristics.py
\* The test of check_winner's loop body on one line of WINNING_LINES.
LineFull(board, line) ==
  /\ board[line[1]] # " "
  /\ board[line[1]] = board[line[2]]
  /\ board[line[2]] = board[line[3]]

\* The for loop returns at the first fully matched line in table order.
check_winner(board) ==
  LET full == SelectSeq(WINNING_LINES, LAMBDA line : LineFull(board, line)) IN
  IF full # << >> THEN board[full[1][1]]
  ELSE IF \A i \in Cells : board[i] # " " THEN "Draw"
  ELSE None

\* Mutation of h1: the branch for a lost position is missing.
h1_no_loss(board, root_player) ==
  IF check_winner(board) = root_player THEN 1 ELSE 0

h1(board, root_player) ==
  LET winner == check_winner(board) IN
  IF winner = root_player THEN 1
  ELSE IF winner # None /\ winner # "Draw" /\ winner # root_player THEN -1
  ELSE 0

get_opponent(player) == IF player = "X" THEN "O" ELSE "X"

\* sum(1 for i in line if board[i] == mark) for the k-th line.
LineCount(board, k, mark) ==
  Cardinality({j \in 1..3 : board[WINNING_LINES[k][j]] = mark})

\* Mutation of PossibleForRoot: a line needs a mark of the root player.
PossibleForRootOwnMark(board, k, root_player) ==
  /\ LineCount(board, k, get_opponent(root_player)) = 0
  /\ LineCount(board, k, root_player) > 0

\* The condition under which h2's loop increments m for the k-th line.
PossibleForRoot(board, k, root_player) ==
  /\ LineCount(board, k, get_opponent(root_player)) = 0
  /\ (LineCount(board, k, root_player) > 0 \/ LineCount(board, k, " ") = 3)

\* The condition under which h2's loop increments o for the k-th line.
PossibleForOpponent(board, k, root_player) ==
  /\ LineCount(board, k, root_player) = 0
  /\ (LineCount(board, k, get_opponent(root_player)) > 0
        \/ LineCount(board, k, " ") = 3)

\* The two counters of h2's loop over WINNING_LINES.
h2_m(board, root_player) ==
  Cardinality({k \in 1..Len(WINNING_LINES) : PossibleForRoot(board, k, root_player)})

h2_o(board, root_player) ==
  Cardinality({k \in 1..Len(WINNING_LINES) : PossibleForOpponent(board, k, root_player)})

h2(board, root_player) ==
  LET opponent == get_opponent(root_player)
      winner   == check_winner(board)
  IN  IF winner = root_player THEN 100
      ELSE IF winner = opponent THEN -100
      ELSE IF winner = "Draw" THEN 0
      ELSE h2_m(board, root_player) - h2_o(board, root_player)

\* Call of the heuristic function value passed to the search.
Heuristic(heuristic, board, root_player) ==
  IF heuristic = "h1" THEN h1(board, root_player) ELSE h2(board, root_player)

\* ---------------------------------------------------------------- minmax.py
\* Empty cells in ascending index order.
get_moves(board) ==
  SelectSeq(<<0, 1, 2, 3, 4, 5, 6, 7, 8>>, LAMBDA i : board[i] = " ")

make_move(board, pos, player) == [board EXCEPT ![pos] = player]

RECURSIVE minimax(_, _, _, _, _)
RECURSIVE MinimaxLoop(_, _, _, _, _, _, _, _, _)

\* The for loops of minimax from the k-th move on; best is max_eval or
\* min_eval so far, nodes the running node count.
MinimaxLoop(board, player, depth, root_player, heuristic, moves, k, best, nodes) ==
  IF k > Len(moves) THEN <<best, nodes>>
  ELSE
    LET r == minimax(make_move(board, moves[k], player), get_opponent(player),
                     depth - 1, root_player, heuristic)
        b == IF player = root_player THEN Max(best, r[1]) ELSE Min(best, r[1])
    IN  MinimaxLoop(board, player, depth, root_player, heuristic, moves,
                    k + 1, b, nodes + r[2])

\* Mutation of minimax: the current node is not counted (nodes = 0).
minimax_uncounted(board, player, depth, root_player, heuristic) ==
  IF depth = 0 \/ check_winner(board) # None
  THEN <<Heuristic(heuristic, board, root_player), 1>>
  ELSE
    LET moves == get_moves(board) IN
    IF moves = << >> THEN <<Heuristic(heuristic, board, root_player), 1>>
    ELSE MinimaxLoop(board, player, depth, root_player, heuristic, moves, 1,
                     IF player = root_player THEN NEG_INF ELSE INF, 0)

minimax(board, player, depth, root_player, heuristic) ==
  IF depth = 0 \/ check_winner(board) # None
  THEN <<Heuristic(heuristic, board, root_player), 1>>
  ELSE
    LET moves == get_moves(board) IN
    IF moves = << >> THEN <<Heuristic(heuristic, board, root_player), 1>>
    ELSE MinimaxLoop(board, player, depth, root_player, heuristic, moves, 1,
                     IF player = root_player THEN NEG_INF ELSE INF, 1)

RECURSIVE alphabeta(_, _, _, _, _, _, _)
RECURSIVE AlphabetaLoop(_, _, _, _, _, _, _, _, _, _, _)

\* Mutation of Cutoff: the window is taken as closed one unit too early.
CutoffWide(alpha, beta) == beta <= alpha + 1

\* The condition of the two break statements.
Cutoff(alpha, beta) == beta <= alpha

\* Mutation of AlphabetaLoop: the minimizing branch raises alpha instead of
\* lowering beta.
AlphabetaLoopMinRaisesAlpha(board, player, depth, alpha, beta, root_player, heuristic, moves, k, best, nodes) ==
  IF k > Len(moves) THEN <<best, nodes>>
  ELSE
    LET r == alphabeta(make_move(board, moves[k], player), get_opponent(player),
                       depth - 1, alpha, beta, root_player, heuristic)
        isMax == player = root_player
        b  == IF isMax THEN Max(best, r[1]) ELSE Min(best, r[1])
        a2 == Max(alpha, r[1])
    IN  IF Cutoff(a2, beta) THEN <<b, nodes + r[2]>>
        ELSE AlphabetaLoop(board, player, depth, a2, beta, root_player,
                           heuristic, moves, k + 1, b, nodes + r[2])

\* The for loops of alphabeta from the k-th move on, with the running
\* alpha and beta of this node.
AlphabetaLoop(board, player, depth, alpha, beta, root_player, heuristic, moves, k, best, nodes) ==
  IF k > Len(moves) THEN <<best, nodes>>
  ELSE
    LET r == alphabeta(make_move(board, moves[k], player), get_opponent(player),
                       depth - 1, alpha, beta, root_player, heuristic)
        isMax == player = root_player
        b  == IF isMax THEN Max(best, r[1]) ELSE Min(best, r[1])
        a2 == IF isMax THEN Max(alpha, r[1]) ELSE alpha
        b2 == IF isMax THEN beta ELSE Min(beta, r[1])
    IN  IF Cutoff(a2, b2) THEN <<b, nodes + r[2]>>
        ELSE AlphabetaLoop(board, player, depth, a2, b2, root_player,
                           heuristic, moves, k + 1, b, nodes + r[2])

alphabeta(board, player, depth, alpha, beta, root_player, heuristic) ==
  IF depth = 0 \/ check_winner(board) # None
  THEN <<Heuristic(heuristic, board, root_player), 1>>
  ELSE
    LET moves == get_moves(board) IN
    IF moves = << >> THEN <<Heuristic(heuristic, board, root_player), 1>>
    ELSE AlphabetaLoop(board, player, depth, alpha, beta, root_player,
                       heuristic, moves, 1,
                       IF player = root_player THEN NEG_INF ELSE INF, 1)

\* Python's None as a move index (get_best_move's best_move = None).
NoMove == -1

Algorithms == {"minimax", "alphabeta"}

\* Mutation of Search: the pruned search is seeded with alpha = 0.
SearchNarrow(algorithm, new_board, opponent, depth, root_player, heuristic) ==
  IF algorithm = "minimax"
  THEN minimax(new_board, opponent, depth - 1, root_player, heuristic)
  ELSE alphabeta(new_board, opponent, depth - 1, 0, INF, root_player,
                 heuristic)

\* The if / elif dispatch on the algorithm name inside get_best_move's loop.
Search(algorithm, new_board, opponent, depth, root_player, heuristic) ==
  IF algorithm = "minimax"
  THEN minimax(new_board, opponent, depth - 1, root_player, heuristic)
  ELSE alphabeta(new_board, opponent, depth - 1, NEG_INF, INF, root_player,
                 heuristic)

\* Mutation of Improves: the minimizing branch is missing.
ImprovesMaxOnly(is_maximizing, value, best_value) == value > best_value

\* Mutation of Improves: a tie replaces the best move so far.
ImprovesOrTies(is_maximizing, value, best_value) ==
  IF is_maximizing THEN value >= best_value ELSE value <= best_value

\* The comparison that lets a candidate replace the best move so far.
Improves(is_maximizing, value, best_value) ==
  IF is_maximizing THEN value > best_value ELSE value < best_value

\* The for loop of get_best_move from the k-th move on.  The result is a
\* record: raised is TRUE when ValueError was raised, and then no value is
\* returned.
RECURSIVE BestMoveLoop(_, _, _, _, _, _, _, _, _, _)
BestMoveLoop(board, player, depth, algorithm, heuristic, moves, k, best_move, best_value, total_nodes) ==
  IF k > Len(moves)
  THEN [raised |-> FALSE, move |-> best_move, nodes |-> total_nodes]
  ELSE IF algorithm \notin Algorithms
  THEN [raised |-> TRUE, move |-> NoMove, nodes |-> 0]
  ELSE
    LET r == Search(algorithm, make_move(board, moves[k], player),
                    get_opponent(player), depth, "X", heuristic)
        better == Improves(player = "X", r[1], best_value)
    IN  BestMoveLoop(board, player, depth, algorithm, heuristic, moves, k + 1,
                     IF better THEN moves[k] ELSE best_move,
                     IF better THEN r[1] ELSE best_value,
                     total_nodes + r[2])

\* Mutation of get_best_move: total_nodes starts at 1, counting the root.
get_best_move_counts_root(board, player, depth, algorithm, heuristic) ==
  LET moves == get_moves(board) IN
  IF moves = << >> THEN [raised |-> FALSE, move |-> NoMove, nodes |-> 0]
  ELSE BestMoveLoop(board, player, depth, algorithm, heuristic, moves, 1,
                    NoMove, IF player = "X" THEN NEG_INF ELSE INF, 1)

\* Mutation of get_best_move: best_value starts at 0 for both players.
get_best_move_from_zero(board, player, depth, algorithm, heuristic) ==
  LET moves == get_moves(board) IN
  IF moves = << >> THEN [raised |-> FALSE, move |-> NoMove, nodes |-> 0]
  ELSE BestMoveLoop(board, player, depth, algorithm, heuristic, moves, 1,
                    NoMove, 0, 0)

get_best_move(board, player, depth, algorithm, heuristic) ==
  LET moves == get_moves(board) IN
  IF moves = << >> THEN [raised |-> FALSE, move |-> NoMove, nodes |-> 0]
  ELSE BestMoveLoop(board, player, depth, algorithm, heuristic, moves, 1,
                    NoMove, IF player = "X" THEN NEG_INF ELSE INF, 0)

\* The number of plies below position b that minimax(b, p, d, ...) descends:
\* 0 where it returns the heuristic value, else one more than the deepest of
\* its recursive calls.
RECURSIVE SearchPlies(_, _, _)
SearchPlies(b, p, d) ==
  IF d = 0 \/ check_winner(b) # None THEN 0
  ELSE
    LET moves == get_moves(b) IN
    IF moves = << >> THEN 0
    ELSE LET below == {SearchPlies(make_move(b, moves[k], p), get_opponent(p), d - 1) :
                         k \in 1..Len(moves)}
         IN  1 + CHOOSE x \in below : \A y \in below : y <= x

\* The number of plies below b that get_best_move(b, p, d, ...) descends: it
\* searches every candidate position with depth d - 1.
BestMovePlies(b, p, d) ==
  LET moves == get_moves(b)
      below == {SearchPlies(make_move(b, moves[k], p), get_opponent(p), d - 1) :
                  k \in 1..Len(moves)}
  IN  IF moves = << >> THEN 0
      ELSE 1 + CHOOSE x \in below : \A y \in below : y <= x

\* ===================================================================== state
VARIABLES
  board,      \* the position: the board argument, or the game's board
  player,     \* the player argument, or the player to move in a game
  depth,      \* the depth argument of the next call
  algorithm,  \* the algorithm name of the next get_best_move call
  heuristic,  \* "h1" or "h2"
  pc,         \* position of the calling code
  search,     \* results of the direct calls: algorithm name -> <<score, nodes>>
  best,       \* results of get_best_move: algorithm name -> result record
  current_player,    \* TicTacToe.current_player
  game_over,         \* TicTacToe.game_over
  games_played,      \* TicTacToe.games_played
  x_wins,            \* TicTacToe.x_wins
  o_wins,            \* TicTacToe.o_wins
  draws,             \* TicTacToe.draws
  pending_ai_moves,  \* ai_move callbacks scheduled by root.after, not yet run
  suspended_clicks   \* on_click calls waiting inside root.update()

\* The state of the window.
gui == <<current_player, game_over, games_played, x_wins, o_wins, draws, pending_ai_moves, suspended_clicks>>

vars == <<board, player, depth, algorithm, heuristic, pc, search, best, gui>>

\* The fields of TicTacToe after __init__; nothing is scheduled or running.
Constructed ==
  /\ current_player = "X"
  /\ game_over = FALSE
  /\ games_played = 0
  /\ x_wins = 0
  /\ o_wins = 0
  /\ draws = 0
  /\ pending_ai_moves = 0
  /\ suspended_clicks = 0

Heuristics == {"h1", "h2"}
NoResults == [a \in {} |-> 0]

Count(b, mark) == Cardinality({i \in Cells : b[i] = mark})

\* ------------------------------------------------- calls on single positions
\* Inputs of the calls: positions with at most MaxEmpty empty cells in which
\* X has placed as many marks as O or one more (won positions included), any
\* player, any depth in 0..MaxDepth, either heuristic.
Positions ==
  {b \in [Cells -> {" ", "X", "O"}] :
     /\ Count(b, " ") <= MaxEmpty
     /\ Count(b, "X") - Count(b, "O") \in {0, 1}}

\* The algorithm names handed to get_best_move in turn; the last is not one
\* of the two the function knows.
AlgorithmNames == <<"minimax", "alphabeta", "negamax">>

\* example_board of run_full_analysis: X at 0, O at 1.
ExampleBoard == [EmptyBoard EXCEPT ![0] = "X", ![1] = "O"]

Init ==
  /\ board \in Positions \cup {ExampleBoard}
  /\ player \in Marks
  /\ depth \in 0..MaxDepth
  /\ heuristic \in Heuristics
  /\ algorithm = AlgorithmNames[1]
  /\ pc = "heuristic"
  /\ search = NoResults
  /\ best = NoResults
  /\ Constructed

\* The heuristic applied to the position itself: under its own name for root
\* player X, under "root_O" for root player O.
CallHeuristic ==
  /\ pc = "heuristic"
  /\ search' = search @@ (heuristic :> Heuristic(heuristic, board, "X"))
                       @@ ("root_O" :> Heuristic(heuristic, board, "O"))
  /\ pc' = "minimax"
  /\ UNCHANGED <<board, player, depth, algorithm, heuristic, best, gui>>

CallMinimax ==
  /\ pc = "minimax"
  /\ search' = search @@ ("minimax" :> minimax(board, player, depth, "X", heuristic))
  /\ pc' = "alphabeta"
  /\ UNCHANGED <<board, player, depth, algorithm, heuristic, best, gui>>

CallAlphabeta ==
  /\ pc = "alphabeta"
  /\ search' = search @@
       ("alphabeta" :> alphabeta(board, player, depth, NEG_INF, INF, "X", heuristic))
  /\ pc' = "get_best_move"
  /\ UNCHANGED <<board, player, depth, algorithm, heuristic, best, gui>>

CallGetBestMove ==
  /\ pc = "get_best_move"
  /\ best' = best @@
       (algorithm :> get_best_move(board, player, depth, algorithm, heuristic))
  /\ \/ \E k \in 1..(Len(AlgorithmNames) - 1) :
          /\ algorithm = AlgorithmNames[k]
          /\ algorithm' = AlgorithmNames[k + 1]
          /\ pc' = pc
     \/ /\ algorithm = AlgorithmNames[Len(AlgorithmNames)]
        /\ algorithm' = algorithm
        /\ pc' = "done"
  /\ UNCHANGED <<board, player, depth, heuristic, search, gui>>

Next == CallHeuristic \/ CallMinimax \/ CallAlphabeta \/ CallGetBestMove

Spec == Init /\ [][Next]_vars

\* ------------------------------------------------------------- whole games
\* Games from the empty board, X first.  In a "selfplay" game both players
\* take the move get_best_move returns, with maxDepth = the number of empty
\* cells; in a "versus" game X places any mark (TicTacToe.on_click) and O
\* answers with get_best_move at depth 9 (TicTacToe.ai_move with the default
\* depth setting).  No move is made once check_winner is not None.
FullDepth == 9

GameInit ==
  /\ board = EmptyBoard
  /\ player = "X"
  /\ depth = FullDepth
  /\ algorithm \in Algorithms
  /\ heuristic \in Heuristics
  /\ pc \in {"selfplay", "versus"}
  /\ search = NoResults
  /\ best = NoResults
  /\ Constructed

HumanMove(i) ==
  /\ pc = "versus"
  /\ player = "X"
  /\ check_winner(board) = None
  /\ board[i] = " "
  /\ board' = make_move(board, i, player)
  /\ player' = get_opponent(player)
  /\ UNCHANGED <<depth, algorithm, heuristic, pc, search, best, gui>>

EngineMove ==
  /\ pc = "selfplay" \/ (pc = "versus" /\ player = "O")
  /\ check_winner(board) = None
  /\ \E r \in {get_best_move(board, player, depth, algorithm, heuristic)} :
       /\ best' = (algorithm :> r)
       /\ board' = IF r.move # NoMove THEN make_move(board, r.move, player)
                   ELSE board
  /\ player' = get_opponent(player)
  /\ depth' = IF pc = "selfplay" THEN Count(board', " ") ELSE depth
  /\ UNCHANGED <<algorithm, heuristic, pc, search, gui>>

GameNext == (\E i \in Cells : HumanMove(i)) \/ EngineMove

Game == GameInit /\ [][GameNext]_vars

\* ------------------------------------------------------- windowed searches
\* alphabeta called with every window alpha < beta over WindowBounds, after
\* minimax on the same position, player, depth and heuristic (root X).
WindowBounds == {NEG_INF, -100, -1, 0, 1, 100, INF}
Windows == {w \in WindowBounds \X WindowBounds : w[1] < w[2]}

WindowedInit ==
  /\ board \in {b \in Positions : Count(b, " ") <= MaxEmptyWindowed}
  /\ player \in Marks
  /\ depth \in 0..MaxDepth
  /\ heuristic \in Heuristics
  /\ algorithm = "alphabeta"
  /\ pc = "minimax"
  /\ search = NoResults
  /\ best = NoResults
  /\ Constructed

CallAlphabetaWindowed ==
  /\ pc = "alphabeta"
  /\ search' = search @@
       ("windowed" :> [w \in Windows |->
           alphabeta(board, player, depth, w[1], w[2], "X", heuristic)])
  /\ pc' = "done"
  /\ UNCHANGED <<board, player, depth, algorithm, heuristic, best, gui>>

WindowedNext == CallMinimax \/ CallAlphabetaWindowed

Windowed == WindowedInit /\ [][WindowedNext]_vars

\* ---------------------------------------------------------- the game tree
\* The positions the search walks through from the empty board, X first: a
\* node that is not terminal is expanded by one move of the player to move
\* on each empty cell (the loops over get_moves in minimax and alphabeta).

\* Mutation of GameOver: only the full board stops the expansion.
GameOverWhenFull(b) == \A i \in Cells : b[i] # " "

\* The terminal test "winner is not None".
GameOver(b) == check_winner(b) # None

TreeInit ==
  /\ board = EmptyBoard
  /\ player = "X"
  /\ depth = FullDepth
  /\ algorithm = "minimax"
  /\ heuristic = "h1"
  /\ pc = "tree"
  /\ search = NoResults
  /\ best = NoResults
  /\ Constructed

Expand(move) ==
  /\ pc = "tree"
  /\ ~GameOver(board)
  /\ board[move] = " "
  /\ board' = make_move(board, move, player)
  /\ player' = get_opponent(player)
  /\ UNCHANGED <<depth, algorithm, heuristic, pc, search, best, gui>>

TreeNext == \E move \in Cells : Expand(move)

Tree == TreeInit /\ [][TreeNext]_vars

\* ---------------------------------------------------------------- the window
\* The handlers of TicTacToe run by the Tk event loop, from the state after
\* construction with the default settings (alphabeta, H2, depth 9).  A
\* handler runs to its end without interruption, except on_click, which
\* hands control back to the event loop in root.update() before it passes
\* the turn to the engine: any handler may run there.  ai_move runs as a
\* timer callback some time after on_click scheduled it.  The widgets and
\* the performance fields last_nodes and last_time are left out.
ai_player == "O"

GuiInit ==
  /\ board = EmptyBoard
  /\ player = ai_player
  /\ depth = FullDepth
  /\ algorithm = "alphabeta"
  /\ heuristic = "h2"
  /\ pc = "mainloop"
  /\ search = NoResults
  /\ best = NoResults
  /\ Constructed

end_game(winner) ==
  /\ game_over' = TRUE
  /\ games_played' = games_played + 1
  /\ draws' = IF winner = "Draw" THEN draws + 1 ELSE draws
  /\ x_wins' = IF winner = "X" THEN x_wins + 1 ELSE x_wins
  /\ o_wins' = IF winner \notin {"Draw", "X"} THEN o_wins + 1 ELSE o_wins

\* on_click(i) up to its return after end_game, or up to root.update().  A
\* click is made while fewer than MaxPending engine moves are scheduled or
\* about to be.
on_click(i) ==
  /\ pc = "mainloop"
  /\ pending_ai_moves + suspended_clicks < MaxPending
  /\ ~(game_over \/ board[i] # " ")
  /\ board' = [board EXCEPT ![i] = current_player]
  /\ IF check_winner(board') # None
     THEN /\ end_game(check_winner(board'))
          /\ UNCHANGED suspended_clicks
     ELSE /\ suspended_clicks' = suspended_clicks + 1
          /\ UNCHANGED <<game_over, games_played, x_wins, o_wins, draws>>
  /\ UNCHANGED <<player, depth, algorithm, heuristic, pc, search, best,
                 current_player, pending_ai_moves>>

\* The rest of on_click, after root.update() has returned.
on_click_after_update ==
  /\ pc = "mainloop"
  /\ suspended_clicks > 0
  /\ suspended_clicks' = suspended_clicks - 1
  /\ current_player' = ai_player
  /\ pending_ai_moves' = pending_ai_moves + 1
  /\ UNCHANGED <<board, player, depth, algorithm, heuristic, pc, search, best,
                 game_over, games_played, x_wins, o_wins, draws>>

ai_move ==
  /\ pc = "mainloop"
  /\ pending_ai_moves > 0
  /\ pending_ai_moves' = pending_ai_moves - 1
  /\ \E r \in {get_best_move(board, ai_player, depth, algorithm, heuristic)} :
       /\ board' = IF r.move # NoMove
                   THEN [board EXCEPT ![r.move] = ai_player]
                   ELSE board
       /\ IF r.move # NoMove /\ check_winner(board') # None
          THEN /\ end_game(check_winner(board'))
               /\ UNCHANGED current_player
          ELSE /\ current_player' = "X"
               /\ UNCHANGED <<game_over, games_played, x_wins, o_wins, draws>>
  /\ UNCHANGED <<player, depth, algorithm, heuristic, pc, search, best,
                 suspended_clicks>>

\* The "New Game" button; it is pressed while fewer than MaxGames games have
\* been counted.
reset_game ==
  /\ pc = "mainloop"
  /\ games_played < MaxGames
  /\ board' = EmptyBoard
  /\ current_player' = "X"
  /\ game_over' = FALSE
  /\ UNCHANGED <<player, depth, algorithm, heuristic, pc, search, best,
                 games_played, x_wins, o_wins, draws,
                 pending_ai_moves, suspended_clicks>>

GuiNext ==
  \/ \E i \in Cells : on_click(i)
  \/ on_click_after_update
  \/ ai_move
  \/ reset_game

Gui == GuiInit /\ [][GuiNext]_vars

\* ==================================================================== claims
Called(results, name) == name \in DOMAIN results

\* C1: seeded with alpha = -infinity and beta = +infinity, alphabeta returns
\* the same score as minimax on the same position, player to move, depth and
\* heuristic (root player X).
AlphabetaScoreEqualsMinimax ==
  (Called(search, "minimax") /\ Called(search, "alphabeta"))
    => search["alphabeta"][1] = search["minimax"][1]

\* Both searches have run on a position where the pruned one cut branches off.
AlphabetaPrunedSomewhere ==
  /\ Called(search, "minimax") /\ Called(search, "alphabeta")
  /\ search["alphabeta"][2] < search["minimax"][2]
  /\ search["alphabeta"][1] = search["minimax"][1]

\* C2: get_best_move returns the same move index under 'alphabeta' as under
\* 'minimax' for the same position, player, maxDepth and heuristic.
BestMoveSameForBothAlgorithms ==
  (Called(best, "minimax") /\ Called(best, "alphabeta"))
    => best["alphabeta"].move = best["minimax"].move

\* Both selections have run, chose a cell, and the pruned one visited fewer
\* nodes.
BothAlgorithmsChoseACell ==
  /\ Called(best, "minimax") /\ Called(best, "alphabeta")
  /\ best["minimax"].move \in Cells
  /\ best["alphabeta"].move = best["minimax"].move
  /\ best["alphabeta"].nodes < best["minimax"].nodes

\* C5: the node count of alphabeta is at most that of minimax on the same
\* inputs, and so is get_best_move's total under 'alphabeta' compared with
\* its total under 'minimax'.
AlphabetaNodesAtMostMinimax ==
  /\ (Called(search, "minimax") /\ Called(search, "alphabeta"))
       => search["alphabeta"][2] <= search["minimax"][2]
  /\ (Called(best, "minimax") /\ Called(best, "alphabeta"))
       => best["alphabeta"].nodes <= best["minimax"].nodes

\* Both pairs of calls have run and the pruned variant visited strictly fewer
\* nodes in the direct search and in the selection.
NodeCountsCompared ==
  /\ Called(best, "minimax") /\ Called(best, "alphabeta")
  /\ search["alphabeta"][2] < search["minimax"][2]
  /\ best["alphabeta"].nodes < best["minimax"].nodes

\* C3: self-play from the empty board, each move being get_best_move with
\* maxDepth = the number of empty cells, terminates with check_winner = 'Draw'
\* for both algorithms and both heuristics: every step of a self-play game
\* fills exactly one empty cell, so the game is over after at most 9 steps
\* (EngineMove is enabled as long as check_winner is None), and no step
\* leaves a position that X or O has won.
SelfPlayEndsInDraw ==
  [][pc = "selfplay" =>
       /\ Count(board', " ") = Count(board, " ") - 1
       /\ check_winner(board') \in {None, "Draw"}]_vars

\* A self-play game has been played to its end.
SelfPlayFinished ==
  /\ pc = "selfplay"
  /\ Count(board, " ") = 0
  /\ check_winner(board) = "Draw"

\* C4: in a game from the empty board where X plays any empty cell and O
\* always plays get_best_move(board, 'O', 9, algorithm, heuristic), no
\* reachable position has check_winner = 'X', for both algorithms and both
\* heuristics.
EngineNeverLosesAsO == pc = "versus" => check_winner(board) # "X"

\* A game against the engine has ended with O's winning move.
EngineHasBeatenX ==
  /\ pc = "versus"
  /\ check_winner(board) = "O"
  /\ Called(best, algorithm)

\* The state after get_best_move(empty board, 'X', 9, 'minimax', h1).
FirstMoveSearched ==
  /\ pc = "selfplay" /\ algorithm = "minimax" /\ heuristic = "h1"
  /\ Count(board, " ") = 8
  /\ Called(best, "minimax")

\* C6, as claimed: on the empty board with maxDepth = 9, heuristic h1 and
\* algorithm 'minimax', get_best_move for X returns a node count of 549,946.
FirstMoveVisits549946 == FirstMoveSearched => best["minimax"].nodes = 549946

\* C6, amended: the count returned is 549,945, the 549,946 nodes of the game
\* tree without its root, which get_best_move does not count.
FirstMoveVisits549945 == FirstMoveSearched => best["minimax"].nodes = 549945

\* The first move of the minimax / h1 self-play game has been searched and
\* placed.
FirstMovePlaced == FirstMoveSearched /\ best["minimax"].move \in Cells

\* C7, as claimed: for the board with X at 0 and O at 1, h2 with root player
\* X counts M = 4 lines for X and O = 6 lines for O and returns -2.
H2ExampleIsMinusTwo ==
  (board = ExampleBoard /\ Called(search, "h2"))
    => /\ h2_m(board, "X") = 4
       /\ h2_o(board, "X") = 6
       /\ search["h2"] = -2

\* C8, as claimed: get_best_move called with an algorithm name other than
\* 'minimax' and 'alphabeta' raises ValueError on every position.
UnknownAlgorithmRaises ==
  \A a \in DOMAIN best : a \notin Algorithms => best[a].raised

\* C9: get_best_move returns (None, 0) if and only if the board has no empty
\* cell; with an empty cell, for either valid algorithm, it returns the index
\* of an empty cell of the input board, also on boards that are already won.
NoMoveIffBoardFull ==
  \A a \in Algorithms \cap DOMAIN best :
    /\ ~best[a].raised
    /\ (best[a].move = NoMove /\ best[a].nodes = 0) <=> (Count(board, " ") = 0)
    /\ Count(board, " ") > 0
         => (best[a].move \in Cells /\ board[best[a].move] = " ")

\* get_best_move has chosen an empty cell of a board that was already won.
MoveChosenOnWonBoard ==
  /\ Called(best, "minimax") /\ Called(best, "alphabeta")
  /\ check_winner(board) \in Marks
  /\ Count(board, " ") > 0
  /\ best["alphabeta"].move \in Cells

\* The value of each candidate move of the current input: the exhaustive
\* search of the position after the move, opponent to move, depth - 1, root X.
CandidateValues ==
  [m \in {i \in Cells : board[i] = " "} |->
     minimax(make_move(board, m, player), get_opponent(player), depth - 1,
             "X", heuristic)[1]]

\* C10: get_best_move returns the lowest-index empty cell among the candidates
\* whose search value is extremal, the maximum for X and the minimum for O; a
\* later candidate with an equal value does not replace it.
BestMoveIsFirstExtremal ==
  (pc = "done" /\ Count(board, " ") > 0) =>
    LET V == CandidateValues
        extremal(m) == \A n \in DOMAIN V :
                         IF player = "X" THEN V[n] <= V[m] ELSE V[n] >= V[m]
        first == CHOOSE m \in DOMAIN V :
                   extremal(m) /\ \A n \in DOMAIN V : extremal(n) => m <= n
    IN  \A a \in Algorithms : best[a].move = first

\* get_best_move has kept its choice although a later candidate has the same
\* value.
TieKeptEarliest ==
  /\ pc = "done"
  /\ best["minimax"].move \in Cells
  /\ LET V == CandidateValues IN
       \E n \in DOMAIN V : n > best["minimax"].move /\ V[n] = V[best["minimax"].move]

\* The value the heuristic call returned for root player r.
HeuristicValue(r) == IF r = "X" THEN search[heuristic] ELSE search["root_O"]

\* h2 has run its line count on the position: the position is not terminal.
H2CountedLines ==
  /\ heuristic = "h2" /\ Called(search, "h2")
  /\ check_winner(board) = None

\* C11, as claimed: in h2's line count on a non-terminal position no line is
\* counted toward both m and o.
NoLineCountsForBoth ==
  H2CountedLines =>
    \A r \in Marks : \A k \in 1..Len(WINNING_LINES) :
      ~(PossibleForRoot(board, k, r) /\ PossibleForOpponent(board, k, r))

\* C11, amended: a line is counted toward both m and o exactly when all three
\* of its cells are empty; a line holding a mark increments at most one of
\* the two counters.
LineCountsForBothIffEmpty ==
  H2CountedLines =>
    \A r \in Marks : \A k \in 1..Len(WINNING_LINES) :
      (PossibleForRoot(board, k, r) /\ PossibleForOpponent(board, k, r))
        <=> LineCount(board, k, " ") = 3

\* h2 has counted a position with a fully empty line (counted twice) and a
\* line counted for one player only.
EmptyLineCountedTwice ==
  /\ H2CountedLines
  /\ \E k \in 1..Len(WINNING_LINES) :
       /\ LineCount(board, k, " ") = 3
       /\ PossibleForRoot(board, k, "X") /\ PossibleForOpponent(board, k, "X")
  /\ \E k \in 1..Len(WINNING_LINES) :
       PossibleForRoot(board, k, "X") /\ ~PossibleForOpponent(board, k, "X")
  /\ search["h2"] = h2_m(board, "X") - h2_o(board, "X")

\* C12: on every terminal position (check_winner is 'X', 'O' or 'Draw') and
\* for each root player, h1 returns a value in {-1, 0, 1} and h2 a value in
\* {-100, 0, 100}, positive exactly when the root player won, negative
\* exactly when the opponent won and zero exactly on a draw.
HeuristicsSignMatchesOutcome ==
  (Called(search, heuristic) /\ check_winner(board) # None) =>
    \A r \in Marks :
      LET v == HeuristicValue(r)
          w == check_winner(board)
      IN  /\ v \in (IF heuristic = "h1" THEN {-1, 0, 1} ELSE {-100, 0, 100})
          /\ v > 0 <=> w = r
          /\ v < 0 <=> w = get_opponent(r)
          /\ v = 0 <=> w = "Draw"

\* h1 has been applied to a position that O has won.
H1ScoredLostPosition ==
  /\ heuristic = "h1" /\ Called(search, "h1")
  /\ check_winner(board) = "O"
  /\ search["h1"] = -1 /\ search["root_O"] = 1

\* C13: in every position reachable from the empty board by alternating
\* single moves, none made once check_winner is not None, all fully matched
\* lines carry the same mark: whichever of them a scan of WINNING_LINES meets
\* first, it yields the value check_winner returns.
FullLinesCarryTheWinner ==
  pc = "tree" =>
    \A k \in 1..Len(WINNING_LINES) :
      LineFull(board, WINNING_LINES[k])
        => board[WINNING_LINES[k][1]] = check_winner(board)

\* A position of the tree in which the last move completed two lines at once.
TwoLinesCompleted ==
  /\ pc = "tree"
  /\ \E k, j \in 1..Len(WINNING_LINES) :
       /\ k < j
       /\ LineFull(board, WINNING_LINES[k])
       /\ LineFull(board, WINNING_LINES[j])

\* C14: for every window alpha < beta, with m the score of minimax and v the
\* score of alphabeta on the same inputs: alpha < m < beta implies v = m,
\* m <= alpha implies v <= alpha, and m >= beta implies v >= beta.
WindowedScoreBoundsMinimax ==
  Called(search, "windowed") =>
    \A w \in Windows :
      LET m == search["minimax"][1]
          v == search["windowed"][w][1]
      IN  /\ (w[1] < m /\ m < w[2]) => v = m
          /\ m <= w[1] => v <= w[1]
          /\ m >= w[2] => v >= w[2]

\* A windowed search has cut branches off and returned a bound that is not
\* the minimax score, next to a window that returned the score itself.
WindowedSearchFailedHigh ==
  /\ Called(search, "windowed")
  /\ \E w \in Windows :
       /\ search["minimax"][1] >= w[2]
       /\ search["windowed"][w][1] # search["minimax"][1]
       /\ search["windowed"][w][2] < search["minimax"][2]
  /\ \E w \in Windows :
       /\ w[1] < search["minimax"][1] /\ search["minimax"][1] < w[2]
       /\ w[1] # NEG_INF /\ w[2] # INF

\* C15, as claimed: for every maxDepth d >= 0 get_best_move visits no
\* position more than max(d, 1) plies below the input position, and with
\* d = 0 or d = 1 the total node count equals the number of empty cells.
DepthBoundsSearch ==
  (pc = "done" /\ Count(board, " ") > 0) =>
    /\ BestMovePlies(board, player, depth) <= Max(depth, 1)
    /\ depth <= 1 => \A a \in Algorithms : best[a].nodes = Count(board, " ")

\* C16, as claimed: in the window, under every interleaving of on_click,
\* reset_game and the delayed ai_move, every reachable board holds as many
\* X as O or one X more, and every cell written by on_click holds "X".
MarksBalanced == Count(board, "X") - Count(board, "O") \in {0, 1}

ClickedCellsHoldX ==
  [][\A i \in Cells : on_click(i) => board'[i] = "X"]_vars

WindowBoardStaysLegal == []MarksBalanced /\ ClickedCellsHoldX

\* C17, as claimed: once end_game has set game_over, the board and the four
\* counters stay unchanged until reset_game, so each game is counted once,
\* and games_played = x_wins + o_wins + draws.
FrozenWhileGameOver ==
  [][(game_over /\ game_over') =>
       UNCHANGED <<board, games_played, x_wins, o_wins, draws>>]_vars

CountersAddUp == games_played = x_wins + o_wins + draws

FinishedGameCountedOnce == FrozenWhileGameOver /\ []CountersAddUp

====
